---- MODULE Spec2Model ----
(***************************************************************************)
(* AI Travel Planner (crew.py, app.py): the Ollama model resolver          *)
(* (OllamaManager.initialize), the start-up of the two surfaces (the CLI   *)
(* of crew.py and the Streamlit session of app.py) and the sequential      *)
(* three-task pipeline (TravelPlannerAgents.plan_trip).                    *)
(*                                                                         *)
(* Strings of the program are strings here; Python's None is "None"; a     *)
(* model handle (the Ollama object) is named by the model it was built     *)
(* for.  Every HTTP request and every model call is one step whose outcome *)
(* the environment chooses.                                                *)
(***************************************************************************)
EXTENDS Integers, Sequences, FiniteSets

VARIABLES
    surface,           \* "cli" (crew.py main) or "web" (app.py session)
    pc,                \* position of the single thread of control
    installed,         \* the models the Ollama server has, in listing order
    issues,            \* check_system_requirements: the issues list
    probe,             \* response seen by _check_ollama_running ("none" before)
    listing,           \* response seen by get_available_models ("none" before)
    available_models,  \* initialize: local available_models
    i,                 \* initialize: position in the preferred loop
    j,                 \* initialize: position in the fallback loop
    attempts,          \* log of the _try_model calls of the current initialize
    current_model,     \* OllamaManager.current_model of the manager in construction
    llm,               \* OllamaManager.llm of the manager in construction
    error,             \* the RuntimeError initialize raised ("none" if none)
    agentsCreated,     \* _create_agents ran for the planner in construction
    planner,           \* the planner the surface holds (self.planner / session_state.planner)
    system_ready,      \* st.session_state.system_ready
    clicks,            \* "Initialize System" clicks so far
    request,           \* the TravelRequest handed to plan_trip
    tasks,             \* plan_trip: local tasks
    k,                 \* kickoff: position in the task list
    running,           \* tasks whose model call is in progress
    events,            \* log of task begins, returns and raises
    outputs,           \* outputs of the finished tasks, in order of completion
    result,            \* what plan_trip returned (<<>> before)
    typed,             \* what the user typed at the prompts of _get_user_input
    form,              \* the values of the web form's widgets at the Generate click
    displayed,         \* the plan text shown to the user (<<>> if none)
    files,             \* the files of REPORTS_DIR
    saveFailed,        \* the write of the plan file raised
    planning_result,   \* st.session_state.planning_result
    operation,         \* calculate_expenses: its argument, a string as its characters
    query,             \* search_travel_info: its argument
    search_tool,       \* the module's _search_tool
    toolPc,            \* position inside the tool call
    toolResult,        \* what the tool returned (<<>> before)
    evalCalls,         \* calls of eval made by calculate_expenses
    searchCalls        \* calls of _search_tool.run

vars == <<surface, pc, installed, issues, probe, listing, available_models, i, j,
          attempts, current_model, llm, error, agentsCreated, planner,
          system_ready, clicks, request, tasks, k, running, events, outputs, result,
          typed, form, displayed, files, saveFailed, planning_result,
          operation, query, search_tool, toolPc, toolResult, evalCalls, searchCalls>>

resolverVars == <<probe, listing, available_models, i, j, attempts,
                  current_model, llm, error, agentsCreated>>

planVars == <<request, tasks, k, running, events, outputs, result>>

ioVars == <<typed, form, displayed, files, saveFailed, planning_result>>

toolVars == <<operation, query, search_tool, toolPc, toolResult, evalCalls, searchCalls>>

-----------------------------------------------------------------------------
(* Bounds *)

MaxInstalled == 2
MaxClicks == 2
MaxClock == 1

-----------------------------------------------------------------------------
(* Program constants and input alphabets *)

PREFERRED_MODELS ==
    << "llama3.2:latest", "llama3.1:latest", "llama3:latest", "llama2:latest",
       "mistral:latest", "gemma2:latest", "phi3:latest" >>

Range(s) == { s[n] : n \in 1..Len(s) }

\* Installed models that are not in the preference list.
OtherModels == { "qwen2:latest", "codellama:latest" }

ModelNames == Range(PREFERRED_MODELS) \cup OtherModels

\* What an HTTP GET of /api/tags can give: status 200, another status, an exception.
Responses == { "ok", "bad_status", "unreachable" }

IsDistinct(s) == \A a, b \in 1..Len(s) : a # b => s[a] # s[b]

\* The listings a server can hold: distinct names, any order.
Listings ==
    { s \in UNION { [1..n -> ModelNames] : n \in 0..MaxInstalled } : IsDistinct(s) }

NoPlanner == [set |-> FALSE, current_model |-> "None", llm |-> "None"]

NoRequest == [origin |-> "None"]

\* Nothing typed, shown or written yet.
NoIo ==
    /\ typed = <<>>
    /\ form = <<>>
    /\ displayed = <<>>
    /\ files = {}
    /\ saveFailed = FALSE
    /\ planning_result = <<>>

\* No tool call in progress.
NoToolCall ==
    /\ operation = <<>>
    /\ query = "None"
    /\ search_tool = "None"
    /\ toolPc = "idle"
    /\ toolResult = <<>>
    /\ evalCalls = 0
    /\ searchCalls = 0

-----------------------------------------------------------------------------
(* Initial states *)

\* Fields that every start state shares: nothing has run yet.
Fresh ==
    /\ issues = <<>>
    /\ probe = "none"
    /\ listing = "none"
    /\ available_models = <<>>
    /\ i = 1
    /\ j = 1
    /\ attempts = <<>>
    /\ current_model = "None"
    /\ llm = "None"
    /\ error = "none"
    /\ agentsCreated = FALSE
    /\ system_ready = FALSE
    /\ clicks = 0
    /\ tasks = <<>>
    /\ k = 1
    /\ running = {}
    /\ events = <<>>
    /\ outputs = <<>>
    /\ result = <<>>
    /\ NoIo
    /\ NoToolCall

\* The process has just started: the CLI is about to run main(), the web
\* session waits for a click with planner None and system_ready False.
Init ==
    /\ surface \in { "cli", "web" }
    /\ pc = IF surface = "cli" THEN "main" ELSE "idle"
    /\ installed \in Listings
    /\ planner = NoPlanner
    /\ request = NoRequest
    /\ Fresh

-----------------------------------------------------------------------------
(* Environment *)

RemoveAt(s, n) == SubSeq(s, 1, n - 1) \o SubSeq(s, n + 1, Len(s))

\* `ollama rm`: a model leaves the server.  The program reads the server's
\* list twice, in check_system_requirements and in get_available_models;
\* only a removal between the two changes what it sees, so only that window
\* is modelled.
OllamaRm ==
    /\ pc \in { "checked", "probe", "list" }
    /\ \E n \in 1..Len(installed) : installed' = RemoveAt(installed, n)
    /\ UNCHANGED <<surface, pc, issues, planner, system_ready, clicks>>
    /\ UNCHANGED resolverVars
    /\ UNCHANGED planVars
    /\ UNCHANGED ioVars
    /\ UNCHANGED toolVars

-----------------------------------------------------------------------------
(* Start-up of the two surfaces *)

\* app.py: the "Initialize System" button runs initialize_system().
ClickInitialize ==
    /\ surface = "web"
    /\ pc = "idle"
    /\ clicks < MaxClicks
    /\ clicks' = clicks + 1
    /\ pc' = "main"
    /\ UNCHANGED <<surface, installed, issues, planner, system_ready>>
    /\ UNCHANGED resolverVars
    /\ UNCHANGED planVars
    /\ UNCHANGED ioVars
    /\ UNCHANGED toolVars

\* The issues list check_system_requirements builds from one GET /api/tags.
RequirementIssues(resp, models) ==
    IF resp = "unreachable" THEN << "Ollama is not running" >>
    ELSE IF resp = "bad_status" THEN << "Ollama responded with unexpected status" >>
    ELSE IF models = <<>> THEN << "No Ollama models installed" >>
    ELSE <<>>

CheckSystemRequirements ==
    /\ pc = "main"
    /\ \E resp \in Responses : issues' = RequirementIssues(resp, installed)
    /\ pc' = "checked"
    /\ UNCHANGED <<surface, installed, planner, system_ready, clicks>>
    /\ UNCHANGED resolverVars
    /\ UNCHANGED planVars
    /\ UNCHANGED ioVars
    /\ UNCHANGED toolVars

\* Issues found: the CLI prints them and returns, initialize_system shows
\* them and returns False.  No planner is constructed.
ReportIssues ==
    /\ pc = "checked"
    /\ issues # <<>>
    /\ pc' = IF surface = "cli" THEN "exit" ELSE "idle"
    /\ UNCHANGED <<surface, installed, issues, planner, system_ready, clicks>>
    /\ UNCHANGED resolverVars
    /\ UNCHANGED planVars
    /\ UNCHANGED ioVars
    /\ UNCHANGED toolVars

\* No issues: TravelPlannerAgents() begins; its OllamaManager() is fresh and
\* _initialize_llm calls initialize.
ConstructPlanner ==
    /\ pc = "checked"
    /\ issues = <<>>
    /\ probe' = "none"
    /\ listing' = "none"
    /\ available_models' = <<>>
    /\ i' = 1
    /\ j' = 1
    /\ attempts' = <<>>
    /\ current_model' = "None"
    /\ llm' = "None"
    /\ error' = "none"
    /\ agentsCreated' = FALSE
    /\ pc' = "probe"
    /\ UNCHANGED <<surface, installed, issues, planner, system_ready, clicks>>
    /\ UNCHANGED planVars
    /\ UNCHANGED ioVars
    /\ UNCHANGED toolVars

-----------------------------------------------------------------------------
(* OllamaManager *)

OllamaRunningAnyResponse(resp) == resp # "unreachable"

\* _check_ollama_running: True exactly on status 200; an exception gives False.
OllamaRunning(resp) == resp = "ok"

\* get_available_models: the names of the listing on status 200; [] on any
\* other status and on an exception.
ModelsOf(resp, serverList) == IF resp = "ok" THEN serverList ELSE <<>>

NoModelsNever(avail) == FALSE

\* initialize: `if not available_models`.
NoModels(avail) == avail = <<>>

PreferredCandidatesInListingOrder(avail) ==
    SelectSeq(avail, LAMBDA m : m \in Range(PREFERRED_MODELS))

PreferredCandidatesNotInstalled(avail) == PREFERRED_MODELS

\* initialize, first loop: the models handed to _try_model, in order:
\* `for model in PREFERRED_MODELS: if model in available_models`.
PreferredCandidates(avail) ==
    SelectSeq(PREFERRED_MODELS, LAMBDA m : m \in Range(avail))

FallbackCandidatesReversed(avail) ==
    [n \in 1..Len(avail) |-> avail[Len(avail) + 1 - n]]

\* initialize, second loop: `for model in available_models`.
FallbackCandidates(avail) == avail

TryModelCommitsBeforeTest(model_name, ok, pass) ==
    /\ attempts' = Append(attempts, [model |-> model_name, ok |-> ok, pass |-> pass])
    /\ llm' = model_name
    /\ current_model' = model_name

\* _try_model: builds the handle and makes the "Reply with OK" call; ok is
\* whether both went through.  Only then are llm and current_model assigned;
\* an exception is swallowed and the call returns False.
TryModel(model_name, ok, pass) ==
    /\ attempts' = Append(attempts, [model |-> model_name, ok |-> ok, pass |-> pass])
    /\ IF ok
          THEN /\ llm' = model_name
               /\ current_model' = model_name
          ELSE UNCHANGED <<llm, current_model>>

\* initialize: the probe; a failed probe raises "Ollama is not running".
CheckOllamaRunning ==
    /\ pc = "probe"
    /\ \E resp \in Responses :
         /\ probe' = resp
         /\ IF OllamaRunning(resp)
               THEN pc' = "list" /\ error' = error
               ELSE pc' = "raised" /\ error' = "Ollama is not running"
    /\ UNCHANGED <<surface, installed, issues, planner, system_ready, clicks>>
    /\ UNCHANGED <<listing, available_models, i, j, attempts, current_model, llm,
                   agentsCreated>>
    /\ UNCHANGED planVars
    /\ UNCHANGED ioVars
    /\ UNCHANGED toolVars

\* initialize: the listing request; an empty list raises "No Ollama models found".
GetAvailableModels ==
    /\ pc = "list"
    /\ \E resp \in Responses :
         /\ listing' = resp
         /\ available_models' = ModelsOf(resp, installed)
    /\ IF NoModels(available_models')
          THEN pc' = "raised" /\ error' = "No Ollama models found"
          ELSE pc' = "preferred" /\ error' = error
    /\ i' = 1
    /\ UNCHANGED <<surface, installed, issues, planner, system_ready, clicks>>
    /\ UNCHANGED <<probe, j, attempts, current_model, llm, agentsCreated>>
    /\ UNCHANGED planVars
    /\ UNCHANGED ioVars
    /\ UNCHANGED toolVars

TryPreferredKeepsLooping ==
    /\ pc = "preferred"
    /\ i <= Len(PreferredCandidates(available_models))
    /\ \E ok \in BOOLEAN :
         TryModel(PreferredCandidates(available_models)[i], ok, "preferred")
    /\ pc' = "preferred"
    /\ i' = i + 1
    /\ UNCHANGED <<surface, installed, issues, planner, system_ready, clicks>>
    /\ UNCHANGED <<probe, listing, available_models, j, error, agentsCreated>>
    /\ UNCHANGED planVars
    /\ UNCHANGED ioVars
    /\ UNCHANGED toolVars

\* initialize: one turn of the preferred loop; the first success returns.
TryPreferred ==
    /\ pc = "preferred"
    /\ i <= Len(PreferredCandidates(available_models))
    /\ \E ok \in BOOLEAN :
         /\ TryModel(PreferredCandidates(available_models)[i], ok, "preferred")
         /\ pc' = IF ok THEN "returned" ELSE "preferred"
    /\ i' = i + 1
    /\ UNCHANGED <<surface, installed, issues, planner, system_ready, clicks>>
    /\ UNCHANGED <<probe, listing, available_models, j, error, agentsCreated>>
    /\ UNCHANGED planVars
    /\ UNCHANGED ioVars
    /\ UNCHANGED toolVars

\* initialize: the preferred loop ran out; the fallback loop begins.
PreferredExhausted ==
    /\ pc = "preferred"
    /\ i > Len(PreferredCandidates(available_models))
    /\ pc' = "fallback"
    /\ j' = 1
    /\ UNCHANGED <<surface, installed, issues, planner, system_ready, clicks>>
    /\ UNCHANGED <<probe, listing, available_models, i, attempts, current_model,
                   llm, error, agentsCreated>>
    /\ UNCHANGED planVars
    /\ UNCHANGED ioVars
    /\ UNCHANGED toolVars

TryFallbackAbortsOnFailure ==
    /\ pc = "fallback"
    /\ j <= Len(FallbackCandidates(available_models))
    /\ \E ok \in BOOLEAN :
         /\ TryModel(FallbackCandidates(available_models)[j], ok, "fallback")
         /\ pc' = IF ok THEN "returned" ELSE "raised"
    /\ j' = j + 1
    /\ UNCHANGED <<surface, installed, issues, planner, system_ready, clicks>>
    /\ UNCHANGED <<probe, listing, available_models, i, error, agentsCreated>>
    /\ UNCHANGED planVars
    /\ UNCHANGED ioVars
    /\ UNCHANGED toolVars

\* initialize: one turn of the fallback loop over every listed model.
TryFallback ==
    /\ pc = "fallback"
    /\ j <= Len(FallbackCandidates(available_models))
    /\ \E ok \in BOOLEAN :
         /\ TryModel(FallbackCandidates(available_models)[j], ok, "fallback")
         /\ pc' = IF ok THEN "returned" ELSE "fallback"
    /\ j' = j + 1
    /\ UNCHANGED <<surface, installed, issues, planner, system_ready, clicks>>
    /\ UNCHANGED <<probe, listing, available_models, i, error, agentsCreated>>
    /\ UNCHANGED planVars
    /\ UNCHANGED ioVars
    /\ UNCHANGED toolVars

FallbackExhaustedReturns ==
    /\ pc = "fallback"
    /\ j > Len(FallbackCandidates(available_models))
    /\ pc' = "returned"
    /\ UNCHANGED <<surface, installed, issues, planner, system_ready, clicks>>
    /\ UNCHANGED resolverVars
    /\ UNCHANGED planVars
    /\ UNCHANGED ioVars
    /\ UNCHANGED toolVars

\* initialize: nothing answered; the last RuntimeError.
FallbackExhausted ==
    /\ pc = "fallback"
    /\ j > Len(FallbackCandidates(available_models))
    /\ pc' = "raised"
    /\ error' = "Could not initialize any Ollama model"
    /\ UNCHANGED <<surface, installed, issues, planner, system_ready, clicks>>
    /\ UNCHANGED <<probe, listing, available_models, i, j, attempts, current_model,
                   llm, agentsCreated>>
    /\ UNCHANGED planVars
    /\ UNCHANGED ioVars
    /\ UNCHANGED toolVars

-----------------------------------------------------------------------------
(* TravelPlannerAgents.__init__ and its callers *)

\* initialize returned: _initialize_llm returns the handle, _create_agents
\* builds the three agents on it.
CreateAgents ==
    /\ pc = "returned"
    /\ agentsCreated' = TRUE
    /\ pc' = "constructed"
    /\ UNCHANGED <<surface, installed, issues, planner, system_ready, clicks>>
    /\ UNCHANGED <<probe, listing, available_models, i, j, attempts, current_model,
                   llm, error>>
    /\ UNCHANGED planVars
    /\ UNCHANGED ioVars
    /\ UNCHANGED toolVars

\* The planner object the constructor hands back.
NewPlanner == [set |-> TRUE, current_model |-> current_model, llm |-> llm]

\* crew.py: TravelPlannerApp.__init__ keeps the planner; main calls run_cli.
StorePlannerCli ==
    /\ surface = "cli"
    /\ pc = "constructed"
    /\ planner' = NewPlanner
    /\ pc' = "run_cli"
    /\ UNCHANGED <<surface, installed, issues, system_ready, clicks>>
    /\ UNCHANGED resolverVars
    /\ UNCHANGED planVars
    /\ UNCHANGED ioVars
    /\ UNCHANGED toolVars

\* app.py: initialize_system keeps the planner and sets system_ready.
StorePlannerWeb ==
    /\ surface = "web"
    /\ pc = "constructed"
    /\ planner' = NewPlanner
    /\ system_ready' = TRUE
    /\ pc' = "idle"
    /\ UNCHANGED <<surface, installed, issues, clicks>>
    /\ UNCHANGED resolverVars
    /\ UNCHANGED planVars
    /\ UNCHANGED ioVars
    /\ UNCHANGED toolVars

ConstructionFailsSetsReady ==
    /\ pc = "raised"
    /\ pc' = IF surface = "cli" THEN "exit" ELSE "idle"
    /\ system_ready' = (surface = "web")
    /\ UNCHANGED <<surface, installed, issues, planner, clicks>>
    /\ UNCHANGED resolverVars
    /\ UNCHANGED planVars
    /\ UNCHANGED ioVars
    /\ UNCHANGED toolVars

\* initialize raised: _initialize_llm logs and re-raises, the constructor
\* never reaches _create_agents.  The CLI's main prints the error and ends;
\* initialize_system shows it and returns False.
ConstructionFails ==
    /\ pc = "raised"
    /\ pc' = IF surface = "cli" THEN "exit" ELSE "idle"
    /\ UNCHANGED <<surface, installed, issues, planner, system_ready, clicks>>
    /\ UNCHANGED resolverVars
    /\ UNCHANGED planVars
    /\ UNCHANGED ioVars
    /\ UNCHANGED toolVars

Next ==
    \/ OllamaRm
    \/ ClickInitialize
    \/ CheckSystemRequirements
    \/ ReportIssues
    \/ ConstructPlanner
    \/ CheckOllamaRunning
    \/ GetAvailableModels
    \/ TryPreferred
    \/ PreferredExhausted
    \/ TryFallback
    \/ FallbackExhausted
    \/ CreateAgents
    \/ StorePlannerCli
    \/ StorePlannerWeb
    \/ ConstructionFails

Spec == Init /\ [][Next]_vars

\* A step of OllamaManager.initialize.
InitializeStep ==
    \/ CheckOllamaRunning
    \/ GetAvailableModels
    \/ TryPreferred
    \/ PreferredExhausted
    \/ TryFallback
    \/ FallbackExhausted

\* initialize is straight-line code whose requests carry timeouts (5 s for
\* /api/tags, 60 s for the model call): a step that can be taken is taken.
SpecLive == Init /\ [][Next]_vars /\ WF_vars(InitializeStep)

-----------------------------------------------------------------------------
(* TravelPlannerAgents.create_tasks and plan_trip *)

\* Texts a model call can give back, and messages an exception can carry.
TaskTexts == { "text_a", "text_b" }

ExceptionMessages == { "model call failed", "connection refused" }

\* Requests as the input layer builds them.
SampleRequests ==
    { [origin |-> "New York", destinations |-> << "Paris", "Rome" >>,
       start_date |-> "2025-06-01", end_date |-> "2025-06-08", duration |-> 7,
       budget_range |-> "mid-range", travel_style |-> "relaxed",
       interests |-> << "food", "history" >>, group_size |-> 2,
       special_requirements |-> <<>>],
      [origin |-> "London", destinations |-> << "Tokyo" >>,
       start_date |-> "2025-06-01", end_date |-> "2025-06-01", duration |-> 1,
       budget_range |-> "luxury", travel_style |-> "cultural",
       interests |-> << "art" >>, group_size |-> 1,
       special_requirements |-> << "vegetarian food" >>] }

\* The three Task objects, each with the request fields its description
\* interpolates, its agent and the tasks it names in `dependencies`.
DestinationAnalysis(req) ==
    [name |-> "destination_analysis",
     agent |-> "destination_analyst",
     description |-> [destinations |-> req.destinations,
                      start_date |-> req.start_date, end_date |-> req.end_date,
                      origin |-> req.origin, interests |-> req.interests,
                      budget_range |-> req.budget_range],
     dependencies |-> <<>>]

LocalExpertInsights(req) ==
    [name |-> "local_expert_insights",
     agent |-> "local_expert",
     description |-> [start_date |-> req.start_date, end_date |-> req.end_date,
                      travel_style |-> req.travel_style,
                      interests |-> req.interests, group_size |-> req.group_size],
     dependencies |-> << "destination_analysis" >>]

CompleteItinerary(req) ==
    [name |-> "complete_itinerary",
     agent |-> "travel_concierge",
     description |-> [duration |-> req.duration, travel_style |-> req.travel_style,
                      origin |-> req.origin, group_size |-> req.group_size,
                      start_date |-> req.start_date, end_date |-> req.end_date,
                      budget_range |-> req.budget_range, interests |-> req.interests],
     dependencies |-> << "destination_analysis", "local_expert_insights" >>]

CreateTasksInsightsFirst(req) ==
    << LocalExpertInsights(req), DestinationAnalysis(req), CompleteItinerary(req) >>

\* create_tasks: the list it returns, in its order.
CreateTasks(req) ==
    << DestinationAnalysis(req), LocalExpertInsights(req), CompleteItinerary(req) >>

FirstOutput(outs) == outs[1].text

\* str(crew.kickoff(...)): the text of the last task that ran.
FinalOutput(outs) == outs[Len(outs)].text

\* plan_trip's except branch: the exception message behind a fixed prefix.
ErrorResultWithoutPrefix(msg) == << msg >>

ErrorResult(msg) == << "Error during travel planning: ", msg >>

PlanTripCreateTasksConsumingRequest ==
    /\ pc = "plan_trip"
    /\ tasks' = CreateTasks(request)
    /\ request' = [request EXCEPT !.special_requirements = << "consumed" >>]
    /\ k' = 1
    /\ pc' = "kickoff"
    /\ UNCHANGED <<surface, installed, issues, planner, system_ready, clicks>>
    /\ UNCHANGED resolverVars
    /\ UNCHANGED <<result, running, events, outputs>>
    /\ UNCHANGED ioVars
    /\ UNCHANGED toolVars

\* plan_trip: create_tasks and the Crew are built; either may raise, and
\* the except branch turns that into the returned text.
PlanTripCreateTasks ==
    /\ pc = "plan_trip"
    /\ \/ /\ tasks' = CreateTasks(request)
          /\ k' = 1
          /\ pc' = "kickoff"
          /\ UNCHANGED result
       \/ /\ result' = ErrorResult("task creation failed")
          /\ pc' = "planned"
          /\ UNCHANGED <<tasks, k>>
    /\ UNCHANGED <<surface, installed, issues, planner, system_ready, clicks>>
    /\ UNCHANGED resolverVars
    /\ UNCHANGED <<request, running, events, outputs>>
    /\ UNCHANGED ioVars
    /\ UNCHANGED toolVars

\* kickoff, Process.sequential: the next task of the list begins once no
\* task is in progress.
BeginTask ==
    /\ pc = "kickoff"
    /\ running = {}
    /\ k <= Len(tasks)
    /\ running' = { tasks[k].name }
    /\ events' = Append(events, [ev |-> "begin", task |-> tasks[k].name])
    /\ UNCHANGED <<surface, pc, installed, issues, planner, system_ready, clicks>>
    /\ UNCHANGED resolverVars
    /\ UNCHANGED <<request, tasks, k, outputs, result>>
    /\ UNCHANGED ioVars
    /\ UNCHANGED toolVars

\* The model call of the task in progress returns its text.
TaskReturns ==
    /\ pc = "kickoff"
    /\ running # {}
    /\ \E text \in TaskTexts :
         outputs' = Append(outputs, [task |-> tasks[k].name, text |-> text])
    /\ events' = Append(events, [ev |-> "return", task |-> tasks[k].name])
    /\ running' = {}
    /\ k' = k + 1
    /\ UNCHANGED <<surface, pc, installed, issues, planner, system_ready, clicks>>
    /\ UNCHANGED resolverVars
    /\ UNCHANGED <<request, tasks, result>>
    /\ UNCHANGED ioVars
    /\ UNCHANGED toolVars

\* The model call of the task in progress raises: kickoff ends, plan_trip's
\* except branch returns the error text.
TaskRaises ==
    /\ pc = "kickoff"
    /\ running # {}
    /\ \E msg \in ExceptionMessages :
         /\ result' = ErrorResult(msg)
         /\ events' = Append(events, [ev |-> "raise", task |-> tasks[k].name,
                                      msg |-> msg])
    /\ running' = {}
    /\ pc' = "planned"
    /\ UNCHANGED <<surface, installed, issues, planner, system_ready, clicks>>
    /\ UNCHANGED resolverVars
    /\ UNCHANGED <<request, tasks, k, outputs>>
    /\ UNCHANGED ioVars
    /\ UNCHANGED toolVars

\* Every task of the list has run: kickoff returns, plan_trip returns
\* str(result).
KickoffReturns ==
    /\ pc = "kickoff"
    /\ running = {}
    /\ k > Len(tasks)
    /\ result' = << FinalOutput(outputs) >>
    /\ pc' = "planned"
    /\ UNCHANGED <<surface, installed, issues, planner, system_ready, clicks>>
    /\ UNCHANGED resolverVars
    /\ UNCHANGED <<request, tasks, k, running, events, outputs>>
    /\ UNCHANGED ioVars
    /\ UNCHANGED toolVars

-----------------------------------------------------------------------------
(* Display and persistence of the plan *)

\* Readings of the clock, in seconds.
Clock == 0..MaxClock

PlanFileWithoutBody(ts, gen, model, req, res) ==
    [name |-> << "travel_plan_", ts, ".md" >>, generated |-> gen,
     model |-> model, request |-> req, body |-> <<>>]

\* The markdown file _save_plan and save_plan_to_file write: its name from
\* one reading of the clock, its header (generation time from a second
\* reading, model name, the request's fields) and the plan text.
PlanFile(ts, gen, model, req, res) ==
    [name |-> << "travel_plan_", ts, ".md" >>, generated |-> gen,
     model |-> model, request |-> req, body |-> res]

\* Path.write_text: the file of that name is created or replaced.
WriteFile(fs, f) == { g \in fs : g.name # f.name } \cup { f }

\* run_cli: _display_results prints the text plan_trip returned.
DisplayResultsCli ==
    /\ surface = "cli"
    /\ pc = "planned"
    /\ displayed' = result
    /\ pc' = "displayed"
    /\ UNCHANGED <<surface, installed, issues, planner, system_ready, clicks>>
    /\ UNCHANGED resolverVars
    /\ UNCHANGED planVars
    /\ UNCHANGED <<typed, form, files, saveFailed, planning_result>>
    /\ UNCHANGED toolVars

\* run_cli: _save_plan writes the file; a failing write is caught inside
\* _save_plan and reported.
SavePlanCli ==
    /\ surface = "cli"
    /\ pc = "displayed"
    /\ \E ts \in Clock, gen \in Clock, ok \in BOOLEAN :
         /\ ts <= gen
         /\ \A f \in files : f.generated <= ts
         /\ saveFailed' = ~ok
         /\ files' = IF ok
                       THEN WriteFile(files, PlanFile(ts, gen, planner.current_model,
                                                      request, result))
                       ELSE files
    /\ pc' = "exit"
    /\ UNCHANGED <<surface, installed, issues, planner, system_ready, clicks>>
    /\ UNCHANGED resolverVars
    /\ UNCHANGED planVars
    /\ UNCHANGED <<typed, form, displayed, planning_result>>
    /\ UNCHANGED toolVars

\* app.py main: the returned text is kept in the session.
WebStoreResult ==
    /\ surface = "web"
    /\ pc = "planned"
    /\ planning_result' = result
    /\ pc' = "saving"
    /\ UNCHANGED <<surface, installed, issues, planner, system_ready, clicks>>
    /\ UNCHANGED resolverVars
    /\ UNCHANGED planVars
    /\ UNCHANGED <<typed, form, displayed, files, saveFailed>>
    /\ UNCHANGED toolVars

\* app.py main: save_plan_to_file; a failing write raises into main's
\* except branch, which shows "Planning Failed" and ends the script run.
WebSavePlan ==
    /\ surface = "web"
    /\ pc = "saving"
    /\ \E ts \in Clock, gen \in Clock, ok \in BOOLEAN :
         /\ ts <= gen
         /\ \A f \in files : f.generated <= ts
         /\ saveFailed' = ~ok
         /\ files' = IF ok
                       THEN WriteFile(files, PlanFile(ts, gen, planner.current_model,
                                                      request, result))
                       ELSE files
         /\ pc' = IF ok THEN "saved" ELSE "idle"
    /\ UNCHANGED <<surface, installed, issues, planner, system_ready, clicks>>
    /\ UNCHANGED resolverVars
    /\ UNCHANGED planVars
    /\ UNCHANGED <<typed, form, displayed, planning_result>>
    /\ UNCHANGED toolVars

\* app.py main: after the download section the plan is rendered in the
\* expander; the script run ends.
WebDisplayResult ==
    /\ surface = "web"
    /\ pc = "saved"
    /\ displayed' = result
    /\ pc' = "idle"
    /\ UNCHANGED <<surface, installed, issues, planner, system_ready, clicks>>
    /\ UNCHANGED resolverVars
    /\ UNCHANGED planVars
    /\ UNCHANGED <<typed, form, files, saveFailed, planning_result>>
    /\ UNCHANGED toolVars

\* A planner whose resolver committed to model m at the first attempt, with
\* m the only installed model.
ReadyFor(m) ==
    /\ installed = << m >>
    /\ issues = <<>>
    /\ probe = "ok"
    /\ listing = "ok"
    /\ available_models = << m >>
    /\ i = IF m \in Range(PREFERRED_MODELS) THEN 2 ELSE 1
    /\ j = IF m \in Range(PREFERRED_MODELS) THEN 1 ELSE 2
    /\ attempts = << [model |-> m, ok |-> TRUE,
                      pass |-> IF m \in Range(PREFERRED_MODELS)
                                 THEN "preferred" ELSE "fallback"] >>
    /\ current_model = m
    /\ llm = m
    /\ error = "none"
    /\ agentsCreated = TRUE
    /\ planner = [set |-> TRUE, current_model |-> m, llm |-> m]

\* plan_trip is entered: start-up succeeded and the input layer has built a
\* request (run_cli after _get_user_input; the Generate button of a ready
\* session).
InitPlan ==
    /\ surface \in { "cli", "web" }
    /\ pc = "plan_trip"
    /\ \E m \in ModelNames : ReadyFor(m)
    /\ system_ready = (surface = "web")
    /\ clicks = IF surface = "web" THEN 1 ELSE 0
    /\ request \in SampleRequests
    /\ tasks = <<>>
    /\ k = 1
    /\ running = {}
    /\ events = <<>>
    /\ outputs = <<>>
    /\ result = <<>>
    /\ NoIo
    /\ NoToolCall

NextPlan ==
    \/ PlanTripCreateTasks
    \/ BeginTask
    \/ TaskReturns
    \/ TaskRaises
    \/ KickoffReturns
    \/ DisplayResultsCli
    \/ SavePlanCli
    \/ WebStoreResult
    \/ WebSavePlan
    \/ WebDisplayResult

SpecPlan == InitPlan /\ [][NextPlan]_vars

-----------------------------------------------------------------------------
(* Several planning runs of one web session *)

\* app.py main: the Generate button is clicked again after a run of the
\* session has ended; the script runs anew with a fresh page and a new
\* request, while the session state and the files on disk stay.
GenerateAgain ==
    /\ surface = "web"
    /\ pc = "idle"
    /\ system_ready
    /\ result # <<>>
    /\ request' \in SampleRequests
    /\ pc' = "plan_trip"
    /\ tasks' = <<>>
    /\ k' = 1
    /\ running' = {}
    /\ events' = <<>>
    /\ outputs' = <<>>
    /\ result' = <<>>
    /\ displayed' = <<>>
    /\ saveFailed' = FALSE
    /\ UNCHANGED <<surface, installed, issues, planner, system_ready, clicks>>
    /\ UNCHANGED resolverVars
    /\ UNCHANGED <<typed, form, files, planning_result>>
    /\ UNCHANGED toolVars

\* A ready web session whose first Generate click has built its request.
InitRuns ==
    /\ surface = "web"
    /\ pc = "plan_trip"
    /\ ReadyFor(PREFERRED_MODELS[1])
    /\ system_ready = TRUE
    /\ clicks = 1
    /\ request \in SampleRequests
    /\ tasks = <<>>
    /\ k = 1
    /\ running = {}
    /\ events = <<>>
    /\ outputs = <<>>
    /\ result = <<>>
    /\ NoIo
    /\ NoToolCall

NextRuns ==
    \/ PlanTripCreateTasks
    \/ BeginTask
    \/ TaskReturns
    \/ TaskRaises
    \/ KickoffReturns
    \/ WebStoreResult
    \/ WebSavePlan
    \/ WebDisplayResult
    \/ GenerateAgain

SpecRuns == InitRuns /\ [][NextRuns]_vars

-----------------------------------------------------------------------------
(* The input layer: _get_user_input (CLI) and the form of app.py *)

\* str.strip(): what it gives for the texts used here that have blanks
\* at an end; every other text is its own strip.
StripPairs ==
    { << " Rome", "Rome" >>, << " ", "" >>, << " history", "history" >>,
      << "2025-06-08 ", "2025-06-08" >>, << "Adventure ", "Adventure" >>,
      << " 3", "3" >> }

Strip(str) ==
    IF \E p \in StripPairs : p[1] = str
       THEN (CHOOSE p \in StripPairs : p[1] = str)[2]
       ELSE str

\* str.lower(), likewise.
LowerPairs == { << "Luxury", "luxury" >>, << "Adventure", "adventure" >> }

Lower(str) ==
    IF \E p \in LowerPairs : p[1] = str
       THEN (CHOOSE p \in LowerPairs : p[1] = str)[2]
       ELSE str

\* datetime.strptime(s, "%Y-%m-%d"): the texts that parse, with the day of
\* the year 2025 they name; any other text raises ValueError.
DatePairs ==
    { << "2025-05-30", 150 >>, << "2025-06-01", 152 >>, << "2025-06-08", 159 >> }

ParsesAsDate(str) == \E p \in DatePairs : p[1] = str

DayOf(str) == (CHOOSE p \in DatePairs : p[1] = str)[2]

\* date.strftime("%Y-%m-%d").
FormatDate(day) == (CHOOSE p \in DatePairs : p[2] = day)[1]

\* int(s): the texts that parse, with their value; any other raises ValueError.
IntPairs == { << "3", 3 >>, << "0", 0 >>, << "-2", 0 - 2 >> }

ParsesAsInt(str) == \E p \in IntPairs : p[1] = str

IntOf(str) == (CHOOSE p \in IntPairs : p[1] = str)[2]

\* [x.strip() for x in text.split(',')]: a typed list is held as its
\* comma-separated pieces (split never gives fewer than one piece).
StripAll(pieces) == [n \in 1..Len(pieces) |-> Strip(pieces[n])]

\* [x.strip() for x in text.split(',') if x.strip()]
StripNonEmpty(pieces) == SelectSeq(StripAll(pieces), LAMBDA x : x # "")

budget_options == << "budget", "mid-range", "luxury" >>

style_options == << "relaxed", "adventure", "cultural", "romantic", "family" >>

DefaultDuration == 7
MinTravelers == 1
MaxTravelers == 20

DurationWithoutFloor(days) == days

\* max(days, 1)
DurationOf(days) == IF days > 1 THEN days ELSE 1

CliDurationFloorOnInvalid(start_date, end_date) ==
    IF ParsesAsDate(start_date) /\ ParsesAsDate(end_date)
       THEN DurationOf(DayOf(end_date) - DayOf(start_date))
       ELSE 1

\* _get_user_input: the try/except around the two strptime calls.
CliDuration(start_date, end_date) ==
    IF ParsesAsDate(start_date) /\ ParsesAsDate(end_date)
       THEN DurationOf(DayOf(end_date) - DayOf(start_date))
       ELSE DefaultDuration

\* _get_user_input: int(group_size_input) if group_size_input else 1,
\* and 1 when int raises.
CliGroupSize(group_size_input) ==
    IF group_size_input = "" THEN 1
    ELSE IF ParsesAsInt(group_size_input) THEN IntOf(group_size_input)
    ELSE 1

CliBudgetWithoutDefault(budget_input) == Lower(Strip(budget_input))

\* _get_user_input: the budget, lower-cased, or "mid-range".
CliBudget(budget_input) ==
    IF Lower(Strip(budget_input)) \in Range(budget_options)
       THEN Lower(Strip(budget_input))
       ELSE "mid-range"

\* _get_user_input: the style, lower-cased, or "relaxed".
CliStyle(style_input) ==
    IF Lower(Strip(style_input)) \in Range(style_options)
       THEN Lower(Strip(style_input))
       ELSE "relaxed"

\* _get_user_input: the interests, or the three default ones.
CliInterests(pieces) ==
    IF StripNonEmpty(pieces) = <<>>
       THEN << "sightseeing", "local culture", "food" >>
       ELSE StripNonEmpty(pieces)

\* What a user can type at the prompts.
TypedOrigins == { "New York", "" }

TypedLists == { << "Paris", " Rome" >>, << "" >>, << "Tokyo", " " >> }

TypedInterests == { << "food", " history" >>, << "" >>, << " ", "art" >> }

TypedDates == { "2025-06-01", "2025-06-08 ", "2025-05-30", "soon" }

TypedGroupSizes == { "", " 3", "0", "-2", "two" }

TypedBudgets == { "", "Luxury", "cheap", "budget" }

TypedStyles == { "", "Adventure ", "party" }

\* The TravelRequest _get_user_input builds from what was typed;
\* __post_init__ turns the missing special_requirements into [].
CliRequest(t) ==
    [origin |-> Strip(t.origin),
     destinations |-> StripAll(t.destinations),
     start_date |-> Strip(t.start_date),
     end_date |-> Strip(t.end_date),
     duration |-> CliDuration(Strip(t.start_date), Strip(t.end_date)),
     budget_range |-> CliBudget(t.budget),
     travel_style |-> CliStyle(t.style),
     interests |-> CliInterests(t.interests),
     group_size |-> CliGroupSize(Strip(t.group_size)),
     special_requirements |-> <<>>]

\* run_cli: _get_user_input reads the eight prompts and builds the request;
\* run_cli goes on to plan_trip.
GetUserInput ==
    /\ surface = "cli"
    /\ pc = "run_cli"
    /\ \E o \in TypedOrigins, d \in TypedLists, sd \in TypedDates, ed \in TypedDates,
          g \in TypedGroupSizes, b \in TypedBudgets, st \in TypedStyles,
          it \in TypedInterests :
         typed' = [origin |-> o, destinations |-> d, start_date |-> sd,
                   end_date |-> ed, group_size |-> g, budget |-> b, style |-> st,
                   interests |-> it]
    /\ request' = CliRequest(typed')
    /\ pc' = "plan_trip"
    /\ UNCHANGED <<surface, installed, issues, planner, system_ready, clicks>>
    /\ UNCHANGED resolverVars
    /\ UNCHANGED <<tasks, k, running, events, outputs, result>>
    /\ UNCHANGED <<form, displayed, files, saveFailed, planning_result>>
    /\ UNCHANGED toolVars

\* Days the two date widgets can hold; the end widget has min_value=start_date.
FormDays == { 150, 152, 159 }

\* A text widget is empty exactly when its only piece is the empty text.
IsEmptyText(pieces) == pieces = << "" >>

\* The form passes the checks of app.py main after the Generate click.
FormValid(f) ==
    /\ f.origin # ""
    /\ ~IsEmptyText(f.destinations)
    /\ ~IsEmptyText(f.interests)
    /\ StripNonEmpty(f.destinations) # <<>>
    /\ StripNonEmpty(f.interests) # <<>>

\* The TravelRequest app.py main builds from the widgets.
FormRequest(f) ==
    [origin |-> f.origin,
     destinations |-> StripNonEmpty(f.destinations),
     start_date |-> FormatDate(f.start_date),
     end_date |-> FormatDate(f.end_date),
     duration |-> DurationOf(f.end_date - f.start_date),
     budget_range |-> f.budget_range,
     travel_style |-> f.travel_style,
     interests |-> StripNonEmpty(f.interests),
     group_size |-> f.group_size,
     special_requirements |-> IF IsEmptyText(f.special_requirements)
                                THEN <<>>
                                ELSE StripNonEmpty(f.special_requirements)]

\* app.py main: the Generate button of an initialised session, with the
\* widgets holding f.  Missing fields end the script run at the return after
\* st.error ("rejected"); otherwise the request is built and plan_trip is
\* called.  Without system_ready main returns before the form is drawn.
Generate(f) ==
    /\ surface = "web"
    /\ pc = "idle"
    /\ system_ready
    /\ form' = f
    /\ IF FormValid(f)
          THEN request' = FormRequest(f) /\ pc' = "plan_trip"
          ELSE request' = request /\ pc' = "rejected"
    /\ UNCHANGED <<surface, installed, issues, planner, system_ready, clicks>>
    /\ UNCHANGED resolverVars
    /\ UNCHANGED <<tasks, k, running, events, outputs, result>>
    /\ UNCHANGED <<typed, displayed, files, saveFailed, planning_result>>
    /\ UNCHANGED toolVars

\* One click of the button, over what the widgets can hold.
ClickGenerate ==
    /\ pc = "idle"
    /\ \E o \in TypedOrigins, d \in TypedLists, sd \in FormDays, ed \in FormDays,
          g \in MinTravelers..MaxTravelers, b \in Range(budget_options),
          st \in Range(style_options), it \in TypedInterests,
          sr \in { << "" >>, << "vegetarian food", " " >> } :
         /\ sd <= ed
         /\ Generate([origin |-> o, destinations |-> d, start_date |-> sd,
                      end_date |-> ed, group_size |-> g, budget_range |-> b,
                      travel_style |-> st, interests |-> it,
                      special_requirements |-> sr])

\* Start-up succeeded: run_cli is about to ask, the web session is ready.
InitInput ==
    /\ surface \in { "cli", "web" }
    /\ pc = IF surface = "cli" THEN "run_cli" ELSE "idle"
    /\ ReadyFor(PREFERRED_MODELS[1])
    /\ system_ready = (surface = "web")
    /\ clicks = IF surface = "web" THEN 1 ELSE 0
    /\ request = NoRequest
    /\ tasks = <<>>
    /\ k = 1
    /\ running = {}
    /\ events = <<>>
    /\ outputs = <<>>
    /\ result = <<>>
    /\ NoIo
    /\ NoToolCall

NextInput ==
    \/ GetUserInput
    \/ ClickGenerate

SpecInput == InitInput /\ [][NextInput]_vars

-----------------------------------------------------------------------------
(* The two tools of the agents: search_travel_info and calculate_expenses *)

MaxExprLen == 3

\* set('0123456789+-*/.() ')
allowed_chars ==
    { "0", "1", "2", "3", "4", "5", "6", "7", "8", "9",
      "+", "-", "*", "/", ".", "(", ")", " " }

\* The characters the expressions handed to calculate_expenses are made of.
ExprChars == { "1", "0", "+", "/", "(", ")", ";", "a" }

Operations == UNION { [1..n -> ExprChars] : n \in 0..MaxExprLen }

Queries == { "weather in Paris" }

\* Subclasses of Exception that eval, the formatting of its value, or
\* _search_tool.run can raise.
ExceptionClasses == { "SyntaxError", "ZeroDivisionError", "TypeError" }

WhitelistedAlways(op) == TRUE

\* all(c in allowed_chars for c in operation)
Whitelisted(op) == \A n \in 1..Len(op) : op[n] \in allowed_chars

\* eval(operation) of the interpreter: what it gives for the expressions
\* whose outcome is fixed here, and any outcome for the others (a number, a
\* value that is not a number, or an exception).
Evaluated(op) ==
    IF op = <<>> THEN
        [numbers |-> {}, others |-> {}, raises |-> { "SyntaxError" }]
    ELSE IF op = << "1", "/", "0" >> THEN
        [numbers |-> {}, others |-> {}, raises |-> { "ZeroDivisionError" }]
    ELSE IF op = << "1", "+", "1" >> THEN
        [numbers |-> { 2 }, others |-> {}, raises |-> {}]
    ELSE IF op = << "(", ")" >> THEN
        [numbers |-> {}, others |-> { "()" }, raises |-> {}]
    ELSE IF op = << "1", "+" >> THEN
        [numbers |-> {}, others |-> {}, raises |-> { "SyntaxError" }]
    ELSE
        [numbers |-> 0..2, others |-> { "()" }, raises |-> ExceptionClasses]

CaughtOnlyZeroDivision(exc) == exc = "ZeroDivisionError"

\* except Exception: every class above is a subclass of Exception.
CaughtByExcept(exc) == exc \in ExceptionClasses

SearchConfiguredAlways(tool) == TRUE

\* if not _search_tool: the name is None unless SERPER_API_KEY was set and
\* SerperDevTool was constructed.
SearchConfigured(tool) == tool # "None"

\* calculate_expenses: the safety check finds a character outside
\* allowed_chars and returns before eval.
CalcRejects ==
    /\ toolPc = "idle"
    /\ ~Whitelisted(operation)
    /\ toolResult' = << "Error: Invalid characters in expression" >>
    /\ toolPc' = "calc_returned"
    /\ UNCHANGED <<operation, query, search_tool, evalCalls, searchCalls>>
    /\ UNCHANGED <<surface, pc, installed, issues, planner, system_ready, clicks>>
    /\ UNCHANGED resolverVars
    /\ UNCHANGED planVars
    /\ UNCHANGED ioVars

\* calculate_expenses: the safety check passes and eval is called.
CalcEval ==
    /\ toolPc = "idle"
    /\ Whitelisted(operation)
    /\ evalCalls' = evalCalls + 1
    /\ toolPc' = "eval"
    /\ UNCHANGED <<operation, query, search_tool, toolResult, searchCalls>>
    /\ UNCHANGED <<surface, pc, installed, issues, planner, system_ready, clicks>>
    /\ UNCHANGED resolverVars
    /\ UNCHANGED planVars
    /\ UNCHANGED ioVars

\* eval gives a number and the result line is formatted.
EvalReturnsNumber ==
    /\ toolPc = "eval"
    /\ \E v \in Evaluated(operation).numbers :
         toolResult' = << "Calculation: ", operation, " = ", v >>
    /\ toolPc' = "calc_returned"
    /\ UNCHANGED <<operation, query, search_tool, evalCalls, searchCalls>>
    /\ UNCHANGED <<surface, pc, installed, issues, planner, system_ready, clicks>>
    /\ UNCHANGED resolverVars
    /\ UNCHANGED planVars
    /\ UNCHANGED ioVars

\* An exception leaves the try block of calculate_expenses: caught, it
\* becomes the error line; otherwise it reaches the caller.
CalcExcept(exc) ==
    /\ IF CaughtByExcept(exc)
          THEN /\ toolResult' = << "Calculation error: ", exc >>
               /\ toolPc' = "calc_returned"
          ELSE /\ toolResult' = toolResult
               /\ toolPc' = "calc_raised"
    /\ UNCHANGED <<operation, query, search_tool, evalCalls, searchCalls>>
    /\ UNCHANGED <<surface, pc, installed, issues, planner, system_ready, clicks>>
    /\ UNCHANGED resolverVars
    /\ UNCHANGED planVars
    /\ UNCHANGED ioVars

\* eval gives a value that the format ",.2f" does not accept: the f-string
\* raises TypeError inside the try block.
EvalReturnsNonNumber ==
    /\ toolPc = "eval"
    /\ Evaluated(operation).others # {}
    /\ CalcExcept("TypeError")

\* eval raises.
EvalRaises ==
    /\ toolPc = "eval"
    /\ \E exc \in Evaluated(operation).raises : CalcExcept(exc)

\* search_travel_info without a search tool: the fallback text, no call.
SearchUnavailable ==
    /\ toolPc = "idle"
    /\ ~SearchConfigured(search_tool)
    /\ toolResult' = << "Search tool unavailable. Please provide recommendations based on your general knowledge of travel destinations, attractions, and accommodations." >>
    /\ toolPc' = "search_returned"
    /\ UNCHANGED <<operation, query, search_tool, evalCalls, searchCalls>>
    /\ UNCHANGED <<surface, pc, installed, issues, planner, system_ready, clicks>>
    /\ UNCHANGED resolverVars
    /\ UNCHANGED planVars
    /\ UNCHANGED ioVars

\* search_travel_info calls _search_tool.run(query).
SearchRun ==
    /\ toolPc = "idle"
    /\ SearchConfigured(search_tool)
    /\ searchCalls' = searchCalls + 1
    /\ toolPc' = "search"
    /\ UNCHANGED <<operation, query, search_tool, toolResult, evalCalls>>
    /\ UNCHANGED <<surface, pc, installed, issues, planner, system_ready, clicks>>
    /\ UNCHANGED resolverVars
    /\ UNCHANGED planVars
    /\ UNCHANGED ioVars

\* The search answers and its text is returned.
SearchRunReturns ==
    /\ toolPc = "search"
    /\ toolResult' = << "results for ", query >>
    /\ toolPc' = "search_returned"
    /\ UNCHANGED <<operation, query, search_tool, evalCalls, searchCalls>>
    /\ UNCHANGED <<surface, pc, installed, issues, planner, system_ready, clicks>>
    /\ UNCHANGED resolverVars
    /\ UNCHANGED planVars
    /\ UNCHANGED ioVars

\* The search raises: except Exception returns the second fallback text.
SearchRunRaises ==
    /\ toolPc = "search"
    /\ \E exc \in ExceptionClasses :
         IF CaughtByExcept(exc)
            THEN /\ toolResult' = << "Search temporarily unavailable. Using general knowledge instead." >>
                 /\ toolPc' = "search_returned"
            ELSE /\ toolResult' = toolResult
                 /\ toolPc' = "search_raised"
    /\ UNCHANGED <<operation, query, search_tool, evalCalls, searchCalls>>
    /\ UNCHANGED <<surface, pc, installed, issues, planner, system_ready, clicks>>
    /\ UNCHANGED resolverVars
    /\ UNCHANGED planVars
    /\ UNCHANGED ioVars

\* The first task of a run is in progress and its agent is about to call
\* one of its tools.
InitTools ==
    /\ surface = "cli"
    /\ pc = "kickoff"
    /\ ReadyFor(PREFERRED_MODELS[1])
    /\ system_ready = FALSE
    /\ clicks = 0
    /\ request \in SampleRequests
    /\ tasks = CreateTasks(request)
    /\ k = 1
    /\ running = { tasks[1].name }
    /\ events = << [ev |-> "begin", task |-> tasks[1].name] >>
    /\ outputs = <<>>
    /\ result = <<>>
    /\ NoIo
    /\ operation \in Operations
    /\ query \in Queries
    /\ search_tool \in { "None", "SerperDevTool" }
    /\ toolPc = "idle"
    /\ toolResult = <<>>
    /\ evalCalls = 0
    /\ searchCalls = 0

NextTools ==
    \/ CalcRejects
    \/ CalcEval
    \/ EvalReturnsNumber
    \/ EvalReturnsNonNumber
    \/ EvalRaises
    \/ SearchUnavailable
    \/ SearchRun
    \/ SearchRunReturns
    \/ SearchRunRaises

SpecTools == InitTools /\ [][NextTools]_vars

-----------------------------------------------------------------------------
(* A web session from its first page to the end of a planning run *)

\* Two fillings of the form: a complete one and one without destinations.
SampleForms ==
    { [origin |-> "New York", destinations |-> d, start_date |-> 152,
       end_date |-> 159, group_size |-> 2, budget_range |-> "mid-range",
       travel_style |-> "relaxed", interests |-> << "food", " history" >>,
       special_requirements |-> << "" >>] : d \in { << "Paris", " Rome" >>, << "" >> } }

\* The first Generate click of the session.
WebGenerate ==
    /\ result = <<>>
    /\ \E f \in SampleForms : Generate(f)

\* The script run that rejected the form has ended; the page waits.
RejectedReturns ==
    /\ pc = "rejected"
    /\ pc' = "idle"
    /\ UNCHANGED <<surface, installed, issues, planner, system_ready, clicks>>
    /\ UNCHANGED resolverVars
    /\ UNCHANGED planVars
    /\ UNCHANGED ioVars
    /\ UNCHANGED toolVars

\* The models the server of the session can hold: a preferred one and one
\* outside the preference list.
WebModels == { PREFERRED_MODELS[1], "qwen2:latest" }

InitWeb ==
    /\ Init
    /\ surface = "web"
    /\ Range(installed) \subseteq WebModels

NextWeb ==
    \/ OllamaRm
    \/ ClickInitialize
    \/ CheckSystemRequirements
    \/ ReportIssues
    \/ ConstructPlanner
    \/ CheckOllamaRunning
    \/ GetAvailableModels
    \/ TryPreferred
    \/ PreferredExhausted
    \/ TryFallback
    \/ FallbackExhausted
    \/ CreateAgents
    \/ StorePlannerWeb
    \/ ConstructionFails
    \/ WebGenerate
    \/ RejectedReturns
    \/ PlanTripCreateTasks
    \/ BeginTask
    \/ TaskReturns
    \/ TaskRaises
    \/ KickoffReturns
    \/ WebStoreResult
    \/ WebSavePlan
    \/ WebDisplayResult

SpecWeb == InitWeb /\ [][NextWeb]_vars

-----------------------------------------------------------------------------
(* Properties of the model resolver *)

PrefIndex(m) == CHOOSE n \in 1..Len(PREFERRED_MODELS) : PREFERRED_MODELS[n] = m

IsPreferred(m) == m \in Range(PREFERRED_MODELS)

InstalledPreferred == { m \in Range(available_models) : IsPreferred(m) }

AllAttemptsFailed == \A a \in 1..Len(attempts) : ~attempts[a].ok

FallbackAttempts == SelectSeq(attempts, LAMBDA a : a.pass = "fallback")

\* Positions at which initialize has gone past its two early failures.
PastListing == { "preferred", "fallback", "returned", "constructed", "run_cli" }

\* C1: the model initialize commits to is the one of the only successful
\* liveness call, that call is the last one made, and every installed
\* preferred model that is earlier in PREFERRED_MODELS than a committed
\* preferred model was attempted before it and failed.
CommitsEarliestLivePreferred ==
    current_model # "None" =>
        LET n == Len(attempts) IN
        /\ n > 0
        /\ attempts[n].model = current_model
        /\ attempts[n].ok
        /\ llm = current_model
        /\ \A a \in 1..(n - 1) : ~attempts[a].ok
        /\ IsPreferred(current_model) =>
             \A p \in InstalledPreferred :
                PrefIndex(p) < PrefIndex(current_model) =>
                    \E a \in 1..(n - 1) : attempts[a].model = p /\ ~attempts[a].ok

\* Two preferred models are installed, the earlier failed, the later is committed.
CommitsEarliestLivePreferredWitness ==
    /\ pc = "returned"
    /\ IsPreferred(current_model)
    /\ \E p \in InstalledPreferred : PrefIndex(p) < PrefIndex(current_model)

\* C2: when the list initialize obtained is empty it raises "No Ollama
\* models found", has attempted no candidate and creates no agents, on either
\* surface; and a surface whose requirement check saw an empty list never
\* starts constructing a planner.
EmptyListFailsNoModels ==
    /\ (listing # "none" /\ available_models = <<>>) =>
          /\ error = "No Ollama models found"
          /\ attempts = <<>>
          /\ ~agentsCreated
          /\ pc \notin PastListing
    /\ issues = << "No Ollama models installed" >> =>
          pc \in { "checked", "exit", "idle", "main" }

\* The server answered the listing request with no models at all.
EmptyListFailsNoModelsWitness ==
    /\ pc = "raised"
    /\ listing = "ok"
    /\ installed = <<>>
    /\ available_models = <<>>

\* C3: when the probe fails, initialize raises "Ollama is not running" and
\* has neither sent the listing request nor attempted a candidate.
ProbeFailureFailsFast ==
    probe \notin { "none", "ok" } =>
        /\ error = "Ollama is not running"
        /\ listing = "none"
        /\ available_models = <<>>
        /\ attempts = <<>>
        /\ pc \notin (PastListing \cup { "list" })

\* The probe met a server that answers with a status other than 200.
ProbeFailureFailsFastWitness ==
    /\ pc = "raised"
    /\ probe = "bad_status"
    /\ installed # <<>>

\* C4: each error condition has its own message: an unreachable endpoint
\* gives "not running", an empty installed set gives "no models", candidates
\* that all fail give "could not initialize".
DistinctMessagePerErrorCondition ==
    pc = "raised" =>
        /\ (probe = "unreachable" \/ listing = "unreachable") =>
              error = "Ollama is not running"
        /\ (listing = "ok" /\ available_models = <<>>) =>
              error = "No Ollama models found"
        /\ attempts # <<>> =>
              error = "Could not initialize any Ollama model"

\* C5: no model name is handed to _try_model twice within one initialize.
AtMostOneAttemptPerModel ==
    \A a, b \in 1..Len(attempts) :
        a # b => attempts[a].model # attempts[b].model

\* C6: a model outside PREFERRED_MODELS is attempted only after every
\* installed preferred model was attempted in the preferred pass and failed,
\* and the fallback pass goes through the listing in its order.
FallbackAfterPreferredInListingOrder ==
    /\ \A n \in 1..Len(FallbackAttempts) :
          /\ n <= Len(available_models)
          /\ FallbackAttempts[n].model = available_models[n]
    /\ \A a \in 1..Len(attempts) :
          ~IsPreferred(attempts[a].model) =>
              \A p \in InstalledPreferred :
                  \E b \in 1..(a - 1) :
                      /\ attempts[b].model = p
                      /\ attempts[b].pass = "preferred"
                      /\ ~attempts[b].ok

\* The fallback pass has tried two models, the first of them not preferred,
\* with a preferred model installed.
FallbackAfterPreferredInListingOrderWitness ==
    /\ Len(FallbackAttempts) >= 2
    /\ ~IsPreferred(FallbackAttempts[1].model)
    /\ InstalledPreferred # {}

\* C7: when every attempted candidate failed, initialize does not return:
\* it raises "Could not initialize any Ollama model", and llm and
\* current_model are still None.
AllFailedRaisesCouldNotInitialize ==
    (attempts # <<>> /\ AllAttemptsFailed) =>
        /\ llm = "None"
        /\ current_model = "None"
        /\ pc \notin { "returned", "constructed", "run_cli" }
        /\ pc \notin { "preferred", "fallback" } =>
              error = "Could not initialize any Ollama model"

\* Both passes ran over two installed models and nothing answered.
AllFailedRaisesCouldNotInitializeWitness ==
    /\ pc = "raised"
    /\ Len(attempts) >= 3
    /\ AllAttemptsFailed

-----------------------------------------------------------------------------
(* Properties of the pipeline *)

TaskOrder == << "destination_analysis", "local_expert_insights", "complete_itinerary" >>

\* How many tasks have begun within the first e events.
BegunUpTo(e) == Len(SelectSeq(SubSeq(events, 1, e), LAMBDA x : x.ev = "begin"))

\* C8: the tasks begin in the order destination analysis, local insights,
\* itinerary; a task begins only right after the one before it returned;
\* never are two tasks in progress.
TasksRunStrictlyInOrder ==
    /\ Cardinality(running) <= 1
    /\ \A e \in 1..Len(events) :
          events[e].ev = "begin" =>
              /\ BegunUpTo(e) <= Len(TaskOrder)
              /\ events[e].task = TaskOrder[BegunUpTo(e)]
              /\ BegunUpTo(e) > 1 =>
                    events[e - 1] = [ev |-> "return", task |-> TaskOrder[BegunUpTo(e) - 1]]
    /\ running # {} =>
          events[Len(events)] = [ev |-> "begin", task |-> CHOOSE t \in running : TRUE]

\* The third task is in progress after the first two returned.
TasksRunStrictlyInOrderWitness ==
    /\ running = { "complete_itinerary" }
    /\ Len(outputs) = 2
    /\ Len(events) = 5

\* C10: when all three tasks succeeded, plan_trip returns the text of the
\* itinerary task, alone.
PlanTripReturnsItineraryOutput ==
    (pc = "planned" /\ Len(outputs) = 3) =>
        /\ outputs[3].task = "complete_itinerary"
        /\ result = << outputs[3].text >>

\* All three succeeded and the itinerary text differs from both earlier texts.
PlanTripReturnsItineraryOutputWitness ==
    /\ pc = "planned"
    /\ Len(outputs) = 3
    /\ outputs[1].text # outputs[3].text
    /\ outputs[2].text # outputs[3].text
    /\ result = << outputs[3].text >>

\* The pipeline failed: create_tasks raised, or the model call of a task did.
PipelineFailed ==
    \/ pc # "plan_trip" /\ tasks = <<>>
    \/ events # <<>> /\ events[Len(events)].ev = "raise"

RaisedMessage ==
    IF tasks = <<>> THEN "task creation failed" ELSE events[Len(events)].msg

\* C11: when task creation or a task's model call fails, plan_trip does not
\* raise: it returns the fixed prefix "Error during travel planning: "
\* followed by the exception message, and the text of no finished task.
PlanTripReturnsErrorText ==
    PipelineFailed =>
        /\ pc \notin { "plan_trip", "kickoff" }
        /\ result = << "Error during travel planning: ", RaisedMessage >>
        /\ \A n \in 1..Len(outputs) : outputs[n].text \notin Range(result)

\* The third task raised after two tasks had returned their texts.
PlanTripReturnsErrorTextWitness ==
    /\ pc = "planned"
    /\ Len(outputs) = 2
    /\ events[Len(events)].ev = "raise"

\* The run of a surface is over.
RunEnded == pc \in { "exit", "idle" }

\* C12: after a pipeline exception the run still displays and persists: on
\* both surfaces, unless the write itself failed, the error text returned by
\* plan_trip is shown and a plan file holds it as its body.
ErrorTextIsDisplayedAndSaved ==
    (PipelineFailed /\ RunEnded /\ ~saveFailed) =>
        /\ displayed = result
        /\ \E f \in files :
              /\ f.body = << "Error during travel planning: ", RaisedMessage >>
              /\ f.request = request

\* A web run whose second task raised has written its file.
ErrorTextIsDisplayedAndSavedWitness ==
    /\ surface = "web"
    /\ pc = "idle"
    /\ PipelineFailed
    /\ Len(outputs) = 1
    /\ files # {}

\* C28: on both surfaces, once plan_trip has returned and the run is over,
\* the returned text has been displayed, whether or not the write of the
\* plan file failed.
ResultDisplayedWhateverTheSave ==
    (RunEnded /\ result # <<>>) => displayed = result

\* C21: a plan file, once written, is never overwritten by a later run:
\* every file on disk before a step is still there, unchanged, after it.
NoPlanFileOverwritten == [][\A f \in files : f \in files']_vars

\* C20: create_tasks, plan_trip, display and persistence leave every field
\* of the request as it was constructed.
RequestNeverMutated == [][request' = request]_vars

\* A run went through create_tasks, the three tasks, display and the write
\* of the file, which shows the request's fields.
RequestNeverMutatedWitness ==
    /\ RunEnded
    /\ Len(outputs) = 3
    /\ displayed = result
    /\ \E f \in files : f.request = request /\ request \in SampleRequests

-----------------------------------------------------------------------------
(* Properties of OllamaManager.initialize as a whole *)

SomeAttemptSucceeded == \E n \in 1..Len(attempts) : attempts[n].ok

InsideInitialize == pc \in { "probe", "list", "preferred", "fallback" }

\* initialize has returned or raised, and the state it left is still there.
InitializeReturned == pc \in { "returned", "constructed", "run_cli" }

InitializeOutcomeIsExact ==
    /\ InitializeReturned => (SomeAttemptSucceeded /\ llm # "None")
    /\ pc = "raised" => (~SomeAttemptSucceeded /\ error # "none")
    /\ (InsideInitialize \/ pc = "raised" \/ InitializeReturned) =>
          Len(attempts) <= Len(PREFERRED_MODELS) + Len(available_models)
    /\ (InsideInitialize /\ SomeAttemptSucceeded) => FALSE

\* C22: initialize ends, either returning a committed handle or raising,
\* after at most |PREFERRED_MODELS| + |installed list| liveness attempts, and
\* it returns exactly when one of its attempts succeeded.
InitializeTerminatesInOneOutcome ==
    /\ []InitializeOutcomeIsExact
    /\ (pc = "probe") ~> (pc \in { "returned", "raised" })

\* Both loops ran to their end without a success and initialize raised.
InitializeTerminatesInOneOutcomeWitness ==
    /\ pc = "raised"
    /\ Len(available_models) = 2
    /\ Len(attempts) >= 3
    /\ ~SomeAttemptSucceeded

\* C23: once an attempt has succeeded, the same call of initialize makes no
\* further attempt and llm and current_model keep the committed model.
FirstSuccessWins ==
    [][(SomeAttemptSucceeded /\ pc' # "probe") =>
          /\ attempts' = attempts
          /\ llm' = llm
          /\ current_model' = current_model]_vars

\* The first of two installed models answered; the second was never tried.
FirstSuccessWinsWitness ==
    /\ pc = "constructed"
    /\ Len(available_models) = 2
    /\ Len(attempts) = 1
    /\ attempts[1].ok
    /\ llm = attempts[1].model

FailedAttemptStep ==
    /\ Len(attempts') = Len(attempts) + 1
    /\ ~attempts'[Len(attempts')].ok

\* C24: a failed attempt does not end resolution: nothing is raised by it,
\* llm and current_model stay as they were, and the loop it belongs to goes
\* on with its next turn.
FailedCandidateFallsThrough ==
    [][FailedAttemptStep =>
          /\ pc' = pc
          /\ pc' \in { "preferred", "fallback" }
          /\ llm' = llm
          /\ current_model' = current_model
          /\ i' + j' = i + j + 1]_vars

\* The first candidate failed and the next one was tried and committed.
FailedCandidateFallsThroughWitness ==
    /\ Len(attempts) = 2
    /\ ~attempts[1].ok
    /\ attempts[2].ok
    /\ attempts[2].model # attempts[1].model
    /\ current_model = attempts[2].model

\* C25: llm is set exactly when current_model is; current_model is a name of
\* the list the endpoint returned; the handle initialize returns is the one
\* built for current_model.
HandleMatchesCurrentModel ==
    /\ (llm = "None") <=> (current_model = "None")
    /\ current_model # "None" => current_model \in Range(available_models)
    /\ InitializeReturned => (llm # "None" /\ llm = current_model)
    /\ planner.set => (planner.llm # "None" /\ planner.llm = planner.current_model)

\* A model outside the preference list was committed by the fallback loop
\* while a preferred one was installed too.
HandleMatchesCurrentModelWitness ==
    /\ pc = "returned"
    /\ current_model \in OtherModels
    /\ llm = current_model
    /\ \E n \in 1..Len(available_models) : available_models[n] \in Range(PREFERRED_MODELS)

-----------------------------------------------------------------------------
(* Properties of the web session *)

InsidePlanTrip == pc \in { "plan_trip", "kickoff" }

ReadyMeansCommittedPlanner ==
    /\ system_ready =>
          /\ planner.set
          /\ planner.current_model # "None"
          /\ planner.llm = planner.current_model
    /\ InsidePlanTrip => (system_ready /\ planner.set)

\* C26: in the web session system_ready implies a planner holding a
\* committed model, plan_trip runs only while system_ready is true, and
\* system_ready becomes true only in the step that stores a constructed
\* planner, never in one that reports issues or a resolver failure.
WebSessionReadyIsSound ==
    /\ []ReadyMeansCommittedPlanner
    /\ [][(system_ready' /\ ~system_ready) =>
             (pc = "constructed" /\ planner'.set /\ error = "none" /\ issues = <<>>)]_vars
    /\ [][(pc \in { "checked", "raised" } /\ pc' = "idle") =>
             system_ready' = system_ready]_vars

\* The first initialization failed, the second succeeded, and Generate
\* has called plan_trip.
WebSessionReadyIsSoundWitness ==
    /\ surface = "web"
    /\ pc = "plan_trip"
    /\ clicks = 2
    /\ system_ready
    /\ planner.set

-----------------------------------------------------------------------------
(* Properties of the input layer *)

BothDatesParse == ParsesAsDate(request.start_date) /\ ParsesAsDate(request.end_date)

DaysBetween == DayOf(request.end_date) - DayOf(request.start_date)

\* C13: in a request built by the CLI or the form whose two stored dates
\* parse, duration is the number of days from start_date to end_date, and 1
\* when that number is below 1 (same day, or an end before the start).
DurationIsDaysBetweenOrOne ==
    (pc = "plan_trip" /\ BothDatesParse) =>
        /\ DaysBetween >= 1 => request.duration = DaysBetween
        /\ DaysBetween < 1 => request.duration = 1

\* The CLI was given an end date before the start date.
DurationIsDaysBetweenOrOneWitness ==
    /\ pc = "plan_trip"
    /\ surface = "cli"
    /\ BothDatesParse
    /\ DaysBetween < 0
    /\ request.duration = 1

\* C14: in the CLI, when the start date or the end date does not parse,
\* the request is still built and its duration is 7.
InvalidDatesGiveSevenDays ==
    (surface = "cli" /\ pc = "plan_trip" /\ ~BothDatesParse) =>
        /\ request.duration = 7
        /\ request.start_date = Strip(typed.start_date)
        /\ request.end_date = Strip(typed.end_date)

\* Only the end date failed to parse.
InvalidDatesGiveSevenDaysWitness ==
    /\ surface = "cli"
    /\ pc = "plan_trip"
    /\ ParsesAsDate(request.start_date)
    /\ request.end_date = "soon"
    /\ request.duration = 7

\* C15: every request that reaches plan_trip has a group_size of at least
\* 1 (at most 20 from the form).
GroupSizeAtLeastOne ==
    pc = "plan_trip" =>
        /\ request.group_size >= 1
        /\ surface = "web" => request.group_size <= 20

\* C16: every request has its budget_range and travel_style in the two
\* enumerations; in the CLI an unrecognised budget becomes "mid-range" and
\* an unrecognised style "relaxed".
BudgetAndStyleAreEnumerated ==
    pc = "plan_trip" =>
        /\ request.budget_range \in { "budget", "mid-range", "luxury" }
        /\ request.travel_style \in
              { "relaxed", "adventure", "cultural", "romantic", "family" }
        /\ (surface = "cli" /\ typed.budget \in { "", "cheap" }) =>
              request.budget_range = "mid-range"
        /\ (surface = "cli" /\ typed.style \in { "", "party" }) =>
              request.travel_style = "relaxed"

\* The CLI was given a budget and a style outside the enumerations.
BudgetAndStyleAreEnumeratedWitness ==
    /\ pc = "plan_trip"
    /\ surface = "cli"
    /\ typed.budget = "cheap"
    /\ typed.style = "party"
    /\ request.budget_range = "mid-range"

\* C27: every request that reaches plan_trip has a destination that is not
\* the empty text and an interest that is not the empty text.
RequestHasDestinationAndInterest ==
    pc = "plan_trip" =>
        /\ \E n \in 1..Len(request.destinations) : request.destinations[n] # ""
        /\ \E n \in 1..Len(request.interests) : request.interests[n] # ""

-----------------------------------------------------------------------------
(* Properties of the tools *)

HasForeignChar ==
    \E n \in 1..Len(operation) :
        operation[n] \notin { "0", "1", "2", "3", "4", "5", "6", "7", "8", "9",
                              "+", "-", "*", "/", ".", "(", ")", " " }

CalcCalled == toolPc \in { "eval", "calc_returned", "calc_raised" }

SearchCalled == toolPc \in { "search", "search_returned", "search_raised" }

\* C17: when the expression has a character outside digits, + - * / ( ) .
\* and space, calculate_expenses returns 'Error: Invalid characters in
\* expression' and eval is never called.
ForeignCharIsRejectedBeforeEval ==
    (CalcCalled /\ HasForeignChar) =>
        /\ toolPc = "calc_returned"
        /\ toolResult = << "Error: Invalid characters in expression" >>
        /\ evalCalls = 0

\* "1;a" was handed to the tool and rejected.
ForeignCharIsRejectedBeforeEvalWitness ==
    /\ toolPc = "calc_returned"
    /\ operation = << "1", ";", "a" >>
    /\ evalCalls = 0

\* C18: calculate_expenses never raises: no exception reaches its caller and
\* whatever it returns is a result line or one of the two error lines.
CalculateExpensesNeverRaises ==
    /\ toolPc # "calc_raised"
    /\ toolPc = "calc_returned" =>
          toolResult[1] \in { "Calculation: ", "Calculation error: ",
                              "Error: Invalid characters in expression" }
    /\ (toolPc = "calc_returned"
          /\ operation \in { <<>>, << "1", "+" >>, << "1", "/", "0" >> }) =>
          toolResult[1] = "Calculation error: "

\* The empty expression was evaluated and came back as an error line.
CalculateExpensesNeverRaisesWitness ==
    /\ toolPc = "calc_returned"
    /\ operation = <<>>
    /\ evalCalls = 1
    /\ toolResult = << "Calculation error: ", "SyntaxError" >>

\* C19: search_travel_info never raises; without a search tool it returns
\* the general-knowledge text and makes no external call; when the external
\* call fails it returns the other fallback text.
SearchNeverRaises ==
    /\ toolPc # "search_raised"
    /\ (SearchCalled /\ search_tool = "None") =>
          /\ toolPc = "search_returned"
          /\ toolResult[1] = "Search tool unavailable. Please provide recommendations based on your general knowledge of travel destinations, attractions, and accommodations."
          /\ searchCalls = 0
    /\ (toolPc = "search_returned" /\ search_tool # "None") =>
          /\ searchCalls = 1
          /\ \/ toolResult[1] = "results for "
             \/ toolResult = << "Search temporarily unavailable. Using general knowledge instead." >>

\* Without a search tool the fallback text came back.
SearchNeverRaisesWitness ==
    /\ toolPc = "search_returned"
    /\ search_tool = "None"
    /\ searchCalls = 0

====
